---- MODULE Spec2Model ----
(***************************************************************************)
(* A model of the ft_config package: the Service (service.go) that owns a  *)
(* Config (config.go) whose values map is filled by Load from the process  *)
(* environment and changed by Set, Delete and Clear.                       *)
(*                                                                         *)
(* Go maps are reference values, so the maps live in a heap of map objects *)
(* and the program's fields hold references into it.  The operations are   *)
(* taken as atomic steps: each Service method holds s.mu from entry to     *)
(* return.                                                                 *)
(***************************************************************************)
EXTENDS Integers, FiniteSets, Sequences, TLC

\* ------------------------------------------------------------------ bounds
\* Number of distinct non-empty logical keys the callers use.
MaxKeys == 2
\* Number of fields of the struct handed to the one-shot Load.
MaxFields == 2
\* Number of goroutines that call the Service at once.
MaxThreads == 2
\* Number of map objects the heap can hold at once.
MaxRefs == 3

KeyNames == <<"a", "b", "c", "d">>

\* Keys and values are Go strings: the empty string is one of them.
Keys == {""} \cup {KeyNames[i] : i \in 1..MaxKeys}
Values == {"", "v"}
\* Names of environment variables.
EnvNames == {"K1", "K2"}
\* Paths handed to Load: an existing well-formed file, a path that does not
\* exist, a file that does not parse, and the empty path.
GoodPath == ".env"
Paths == {GoodPath, "missing.env", "bad.env", ""}

Refs == 1..MaxRefs
NoRef == 0

\* ------------------------------------------------------------------ errors
Nil == "nil"
ErrKeyNotFound == "configuration key not found"
ErrLoadEnv == "failed to load .env file"
ErrEmptyKey == "key cannot be empty"

\* ------------------------------------------------------------- Go maps
\* A map[string]string is a function from the set of its keys.
EmptyMap == [k \in {} |-> ""]
MapPut(m, k, v) == [x \in (DOMAIN m) \cup {k} |-> IF x = k THEN v ELSE m[x]]
MapDelete(m, k) == [x \in (DOMAIN m) \ {k} |-> m[x]]
MapsOver(D, R) == UNION {[S -> R] : S \in SUBSET D}

VARIABLES
    heap,      \* the live map objects: reference -> map[string]string
    mapping,   \* Service.mapping: reference to the caller's ConfigMapping
    values,    \* Service.config.values: reference to the Store's map
    env,       \* the process environment: name -> value, for the names set
    handle,    \* TRUE once the caller holds the *Config that Config() returned
    got,       \* reference to the map the last GetAll returned, or NoRef
    op,        \* the last call made
    key,       \* its key argument
    val,       \* its value (or default, or path) argument
    ret,       \* the string it returned
    ok,        \* the boolean it returned
    err,       \* the error it returned
    before     \* the Store's contents when that call was made

\* The one-shot Load(path, &target) that fills an annotated struct.
VARIABLES
    fields,    \* the target's struct type: its fields in declaration order
    target,    \* the caller's struct: the value of each field
    tbefore,   \* the caller's struct when the last Load was called
    tkind,     \* what the caller passed as the target of the last Load
    msg        \* the message of the error the last Load returned

refl == <<fields, target, tbefore, tkind, msg>>

\* Goroutines calling one Service at once.
VARIABLES
    thr,       \* each goroutine: where it is in its call, and the call
    mu,        \* Service.mu: the goroutine holding it for writing, those reading
    hist       \* the last write that released the lock, the values Sets wrote

conc == <<thr, mu, hist>>

\* The package's logger.
VARIABLES
    logger     \* globalLogger: enabled, who holds its mu, and the last toggle;
               \* out: the lines written to the standard log

\* What a call on the Service, or a step of its caller, leaves alone.
others == <<refl, conc, logger>>

vars == <<heap, mapping, values, env, handle, got, op, key, val, ret, ok, err, before,
          refl, conc, logger>>

\* The Store's contents and the mapping's entries.
Store == heap[values]
Mapping == heap[mapping]

\* References the program or the caller still holds; the rest is garbage.
Roots(m, s, g) == {m, s, g} \ {NoRef}
Collect(h, roots) == [r \in (DOMAIN h) \cap roots |-> h[r]]
\* make(map[string]string): a reference that no object staying alive has.
NewRef(live) == CHOOSE r \in Refs \ live : \A q \in Refs \ live : r <= q

\* ------------------------------------------------------------ config.go
\* Config.Get without the empty-key test.
ConfigGetNoEmptyCheck(m, k) ==
    IF k \notin DOMAIN m THEN [ret |-> "", err |-> ErrKeyNotFound]
    ELSE [ret |-> m[k], err |-> Nil]

\* Config.Get without the existence test: a missing key reads as "".
ConfigGetZeroValue(m, k) ==
    IF k = "" THEN [ret |-> "", err |-> ErrEmptyKey]
    ELSE [ret |-> IF k \in DOMAIN m THEN m[k] ELSE "", err |-> Nil]

\* Config.Get: the value and nil, or "" and the error.
ConfigGet(m, k) ==
    IF k = "" THEN [ret |-> "", err |-> ErrEmptyKey]
    ELSE IF k \notin DOMAIN m THEN [ret |-> "", err |-> ErrKeyNotFound]
    ELSE [ret |-> m[k], err |-> Nil]

\* Config.GetOrDefault that takes an empty stored value for a missing one.
ConfigGetOrDefaultEmptyIsAbsent(m, k, d) ==
    IF k \notin DOMAIN m \/ m[k] = "" THEN d ELSE m[k]

\* Config.GetOrDefault
ConfigGetOrDefault(m, k, d) == IF k \notin DOMAIN m THEN d ELSE m[k]

\* Config.Has
ConfigHas(m, k) == k \in DOMAIN m

\* Config.GetAll that returns c.values itself instead of a copy.
ConfigGetAllAlias(h, s, live) == [heap |-> h, ref |-> s]

\* Config.GetAll: a new map filled with every entry of c.values.  The result
\* is the heap with the new object and the reference to it.
ConfigGetAll(h, s, live) ==
    LET r == NewRef(live)
    IN  [heap |-> (r :> [k \in DOMAIN h[s] |-> h[s][k]]) @@ h, ref |-> r]

\* Config.GetValue: indexing a Go map gives "" for a key it does not hold.
ConfigGetValue(m, k) == IF k \in DOMAIN m THEN m[k] ELSE ""

\* ------------------------------------------------- the environment file
\* The file at GoodPath, as the name -> value pairs the parser reads from it.
FileEntries == [n \in {"K1"} |-> "v"]

\* godotenv.Load(path): fails, touching nothing, when the file cannot be
\* opened (the empty path names no file) or parsed; otherwise exports every
\* entry of the file whose name the process environment does not define yet.
GodotenvLoad(e, path) ==
    IF path # GoodPath THEN [ok |-> FALSE, env |-> e]
    ELSE [ok |-> TRUE,
          env |-> [n \in (DOMAIN e) \cup (DOMAIN FileEntries) |->
                       IF n \in DOMAIN e THEN e[n] ELSE FileEntries[n]]]

\* The loop of Load storing, besides the mapped entries, every variable of
\* the environment under the variable's own name.
LoadMappedAll(m, mp, e) ==
    LET hit == {ck \in DOMAIN mp : mp[ck] \in DOMAIN e}
    IN  [k \in (DOMAIN m) \cup hit \cup (DOMAIN e) |->
            IF k \in hit THEN e[mp[k]] ELSE IF k \in DOMAIN e THEN e[k] ELSE m[k]]

\* The loop of Load keeping the value of a key the Store already holds.
LoadMappedIfAbsent(m, mp, e) ==
    LET hit == {ck \in DOMAIN mp : mp[ck] \in DOMAIN e}
    IN  [k \in (DOMAIN m) \cup hit |-> IF k \in DOMAIN m THEN m[k] ELSE e[mp[k]]]

\* The loop of Load building the Store anew from the entries it resolves.
LoadMappedFresh(m, mp, e) ==
    LET hit == {ck \in DOMAIN mp : mp[ck] \in DOMAIN e}
    IN  [k \in hit |-> e[mp[k]]]

\* os.LookupEnv over the mapping: the Store after the loop of Load, which
\* writes values[configKey] for every entry whose envKey is defined.
LoadMapped(m, mp, e) ==
    LET hit == {ck \in DOMAIN mp : mp[ck] \in DOMAIN e}
    IN  [k \in (DOMAIN m) \cup hit |-> IF k \in hit THEN e[mp[k]] ELSE m[k]]

\* ------------------------------------------------- the logger's mutex
\* The goroutines of the callers.
Threads == 1..MaxThreads
NoThread == 0

\* Goroutines toggle the package's logger and ask whether it is enabled.
ToggleOps == {"EnableLogging", "DisableLogging"}
LoggerOps == ToggleOps \cup {"IsLoggingEnabled"}

\* An RLock of the logger that a writer does not hold back.
LoggerCanRLockAlways(t) == TRUE
\* The goroutines inside globalLogger.mu.Lock(), waiting for the readers.
LoggerPending == {t \in Threads : thr[t].pc = "pending" /\ thr[t].op \in ToggleOps}
\* globalLogger.mu.RLock() returns once no goroutine holds it for writing or
\* is inside Lock() waiting for it.
LoggerCanRLock(t) == logger.writer = NoThread /\ LoggerPending = {}
\* globalLogger.mu.Lock() returns once no goroutine holds it at all.
LoggerCanLock(t) == logger.writer = NoThread /\ logger.readers = {}

\* ------------------------------------------------------------ service.go
\* The call record of the call that returns; "" and FALSE stand where the
\* call has no such argument or result.
Called(o, k, v, r, b, e) ==
    /\ op' = o
    /\ key' = k
    /\ val' = v
    /\ ret' = r
    /\ ok' = b
    /\ err' = e
    /\ before' = Store

\* A call that makes no call of the logger.
Record(o, k, v, r, b, e) ==
    /\ Called(o, k, v, r, b, e)
    /\ UNCHANGED others

\* log.Printf("[ft_config] [%s] %s", context, message), the message given as
\* its format and arguments.
Line(context, format, args) == <<context, format, args>>

\* logInfo, logInfof and logError that print whatever the toggle says.
LogAlways(lines) == logger' = [logger EXCEPT !.out = @ \cup lines]

\* logInfo, logInfof and logError, called for each of the lines: enabled is
\* read under globalLogger.mu.RLock(), and the line is printed if it was set.
Log(lines) ==
    /\ LoggerCanRLock(NoThread)
    /\ logger' = [logger EXCEPT !.out = IF logger.enabled THEN @ \cup lines ELSE @]

\* A call that logs the lines.
RecordLog(o, k, v, r, b, e, lines) ==
    /\ Called(o, k, v, r, b, e)
    /\ Log(lines)
    /\ UNCHANGED <<refl, conc>>

\* New(mapping): the Service keeps the caller's map and makes an empty Store.
\* The mappings passed to New name the empty key and the first non-empty one.
MapKeys == {"", KeyNames[1]}
Mappings == MapsOver(MapKeys, EnvNames)
Envs == MapsOver(EnvNames, Values)

\* No struct has been loaded.
NoTarget ==
    /\ fields = <<>>
    /\ target = <<>>
    /\ tbefore = <<>>
    /\ tkind = ""
    /\ msg = ""

\* What a read that races with a write may return instead of the value.
Torn == "torn"
\* The last write that released the lock: none since New made the Store.
NoWrite == [kind |-> "New", val |-> ""]
\* A goroutine that has made no call; todo holds the entries of the mapping
\* that the loop of a Load has yet to visit.
IdleThread ==
    [pc |-> "idle", op |-> "", val |-> "", acq |-> NoWrite, raced |-> FALSE,
     todo |-> {}]

\* No goroutine is in a call, the locks are free and logging is disabled.
Quiet ==
    /\ thr = [t \in Threads |-> IdleThread]
    /\ mu = [writer |-> NoThread, readers |-> {}]
    /\ hist = [last |-> NoWrite, written |-> {}]
    /\ logger = [enabled |-> FALSE, writer |-> NoThread, readers |-> {},
                 last |-> NoWrite, out |-> {}]

Init ==
    /\ NoTarget
    /\ Quiet
    /\ \E mp \in Mappings : heap = (1 :> mp) @@ (2 :> EmptyMap)
    /\ mapping = 1
    /\ values = 2
    /\ env \in Envs
    /\ handle = FALSE
    /\ got = NoRef
    /\ op = "New"
    /\ key = ""
    /\ val = ""
    /\ ret = ""
    /\ ok = FALSE
    /\ err = Nil
    /\ before = EmptyMap

\* New: the line logged before the Service is made.
NewLine(mp) ==
    Line("New", "Creating new config service with %d mappings",
         <<ToString(Cardinality(DOMAIN mp))>>)

\* Service.Load: the line logged before the lock is taken.
LoadingLine(path) ==
    Line("Load", "Loading environment variables from: %s", <<path>>)

\* Service.Load: the lines of a Load that read the file, one for each entry
\* of the mapping and the count at the end.
LoadLines(path, mp, e) ==
    LET hit == {ck \in DOMAIN mp : mp[ck] \in DOMAIN e}
    IN  {LoadingLine(path)}
        \cup {Line("Load", "Loaded %s -> %s", <<mp[ck], ck>>) : ck \in hit}
        \cup {Line("Load", "Environment variable not found: %s", <<mp[ck]>>) :
                 ck \in (DOMAIN mp) \ hit}
        \cup {Line("Load", "Successfully loaded %d/%d configuration values",
                   <<ToString(Cardinality(hit)), ToString(Cardinality(DOMAIN mp))>>)}

\* New(mapping), called again with the map the caller gave before: the line is
\* logged, and the caller holds a Service with an empty Store and no handle.
ServiceNew ==
    LET r == NewRef(Roots(mapping, NoRef, got))
    IN  /\ values' = r
        /\ heap' = Collect((r :> EmptyMap) @@ heap, Roots(mapping, r, got))
        /\ handle' = FALSE
        /\ RecordLog("New", "", "", "", FALSE, Nil, {NewLine(Mapping)})
        /\ UNCHANGED <<mapping, env, got>>

\* Service.Load without the return after godotenv fails.
ServiceLoadNoReturn(path) ==
    LET r == GodotenvLoad(env, path)
    IN  /\ env' = r.env
        /\ heap' = [heap EXCEPT ![values] = LoadMapped(Store, Mapping, r.env)]
        /\ Record("Load", "", path, "", FALSE, Nil)
        /\ UNCHANGED <<mapping, values, handle, got>>

\* Service.Load
ServiceLoad(path) ==
    LET r == GodotenvLoad(env, path)
    IN  /\ env' = r.env
        /\ IF r.ok
           THEN /\ heap' = [heap EXCEPT ![values] = LoadMapped(Store, Mapping, r.env)]
                /\ RecordLog("Load", "", path, "", FALSE, Nil,
                             LoadLines(path, Mapping, r.env))
           ELSE /\ heap' = heap
                /\ RecordLog("Load", "", path, "", FALSE, ErrLoadEnv,
                             {LoadingLine(path), Line("Load", "ERROR: %v", <<path>>)})
        /\ UNCHANGED <<mapping, values, handle, got>>

\* Service.Get
ServiceGet(k) ==
    LET r == ConfigGet(Store, k)
    IN  /\ Record("Get", k, "", r.ret, FALSE, r.err)
        /\ UNCHANGED <<heap, mapping, values, env, handle, got>>

\* Service.GetOrDefault that stores the default it returns for a missing key.
ServiceGetOrDefaultStores(k, d) ==
    /\ heap' = [heap EXCEPT ![values] =
                    IF k \in DOMAIN Store THEN Store ELSE MapPut(Store, k, d)]
    /\ Record("GetOrDefault", k, d, ConfigGetOrDefault(Store, k, d), FALSE, Nil)
    /\ UNCHANGED <<mapping, values, env, handle, got>>

\* Service.GetOrDefault
ServiceGetOrDefault(k, d) ==
    /\ Record("GetOrDefault", k, d, ConfigGetOrDefault(Store, k, d), FALSE, Nil)
    /\ UNCHANGED <<heap, mapping, values, env, handle, got>>

\* Service.Has
ServiceHas(k) ==
    /\ Record("Has", k, "", "", ConfigHas(Store, k), Nil)
    /\ UNCHANGED <<heap, mapping, values, env, handle, got>>

\* Service.GetAll: the caller receives the map and lets go of the one an
\* earlier GetAll gave it.
ServiceGetAll ==
    LET r == ConfigGetAll(heap, values, Roots(mapping, values, NoRef))
    IN  /\ got' = r.ref
        /\ heap' = Collect(r.heap, Roots(mapping, values, r.ref))
        /\ Record("GetAll", "", "", "", FALSE, Nil)
        /\ UNCHANGED <<mapping, values, env, handle>>

\* Service.Set that leaves a map holding the new entry alone.
ServiceSetAlone(k, v) ==
    IF k = ""
    THEN /\ Record("Set", k, v, "", FALSE, ErrEmptyKey)
         /\ UNCHANGED <<heap, mapping, values, env, handle, got>>
    ELSE /\ heap' = [heap EXCEPT ![values] = MapPut(EmptyMap, k, v)]
         /\ Record("Set", k, v, "", FALSE, Nil)
         /\ UNCHANGED <<mapping, values, env, handle, got>>

\* Service.Set that keeps the value of a key already present.
ServiceSetInsertOnly(k, v) ==
    IF k = ""
    THEN /\ Record("Set", k, v, "", FALSE, ErrEmptyKey)
         /\ UNCHANGED <<heap, mapping, values, env, handle, got>>
    ELSE /\ heap' = [heap EXCEPT ![values] =
                         IF k \in DOMAIN Store THEN Store ELSE MapPut(Store, k, v)]
         /\ Record("Set", k, v, "", FALSE, Nil)
         /\ UNCHANGED <<mapping, values, env, handle, got>>

\* Service.Set without the empty-key test.
ServiceSetNoCheck(k, v) ==
    /\ heap' = [heap EXCEPT ![values] = MapPut(Store, k, v)]
    /\ Record("Set", k, v, "", FALSE, Nil)
    /\ UNCHANGED <<mapping, values, env, handle, got>>

\* Service.Set that removes the key when the value is empty.
ServiceSetEmptyDeletes(k, v) ==
    IF k = ""
    THEN /\ Record("Set", k, v, "", FALSE, ErrEmptyKey)
         /\ UNCHANGED <<heap, mapping, values, env, handle, got>>
    ELSE /\ heap' = [heap EXCEPT ![values] =
                         IF v = "" THEN MapDelete(Store, k) ELSE MapPut(Store, k, v)]
         /\ Record("Set", k, v, "", FALSE, Nil)
         /\ UNCHANGED <<mapping, values, env, handle, got>>

\* Service.Set
ServiceSet(k, v) ==
    IF k = ""
    THEN /\ Record("Set", k, v, "", FALSE, ErrEmptyKey)
         /\ UNCHANGED <<heap, mapping, values, env, handle, got>>
    ELSE /\ heap' = [heap EXCEPT ![values] = MapPut(Store, k, v)]
         /\ RecordLog("Set", k, v, "", FALSE, Nil,
                      {Line("Set", "Set %s = %s", <<k, v>>)})
         /\ UNCHANGED <<mapping, values, env, handle, got>>

\* Service.Delete that blanks the value instead of removing the key.
ServiceDeleteBlank(k) ==
    /\ heap' = [heap EXCEPT ![values] = MapPut(Store, k, "")]
    /\ Record("Delete", k, "", "", FALSE, Nil)
    /\ UNCHANGED <<mapping, values, env, handle, got>>

\* Service.Delete
ServiceDelete(k) ==
    /\ heap' = [heap EXCEPT ![values] = MapDelete(Store, k)]
    /\ RecordLog("Delete", k, "", "", FALSE, Nil,
                 {Line("Delete", "Deleted key: %s", <<k>>)})
    /\ UNCHANGED <<mapping, values, env, handle, got>>

\* Service.Clear that makes the new map and never stores it in s.config.
ServiceClearLocal ==
    /\ Record("Clear", "", "", "", FALSE, Nil)
    /\ UNCHANGED <<heap, mapping, values, env, handle, got>>

\* Service.Clear: s.config.values is pointed at a new empty map; the old map
\* stays alive only if something else still refers to it.
ServiceClear ==
    LET r == NewRef(Roots(mapping, NoRef, got))
    IN  /\ values' = r
        /\ heap' = Collect((r :> EmptyMap) @@ heap, Roots(mapping, r, got))
        /\ RecordLog("Clear", "", "", "", FALSE, Nil,
                     {Line("Clear", "Cleared all configuration values", <<>>)})
        /\ UNCHANGED <<mapping, env, handle, got>>

\* Service.Config: the caller receives s.config, the Config itself.
ServiceConfig ==
    /\ handle' = TRUE
    /\ Record("Config", "", "", "", FALSE, Nil)
    /\ UNCHANGED <<heap, mapping, values, env, got>>

\* ------------------------------------------- the handle Config() returned
\* A handle that reads the map as the Store was before the last call.
HandleStoreStale == before
\* The handle is s.config itself: its methods read the map that
\* s.config.values refers to when they are called.
HandleStore == heap[values]

\* The methods of *Config called by the caller on the handle.
HandleGet(k) ==
    LET r == ConfigGet(HandleStore, k)
    IN  /\ handle
        /\ Record("Config.Get", k, "", r.ret, FALSE, r.err)
        /\ UNCHANGED <<heap, mapping, values, env, handle, got>>

HandleGetOrDefault(k, d) ==
    /\ handle
    /\ Record("Config.GetOrDefault", k, d, ConfigGetOrDefault(HandleStore, k, d), FALSE, Nil)
    /\ UNCHANGED <<heap, mapping, values, env, handle, got>>

HandleHas(k) ==
    /\ handle
    /\ Record("Config.Has", k, "", "", ConfigHas(HandleStore, k), Nil)
    /\ UNCHANGED <<heap, mapping, values, env, handle, got>>

HandleGetAll ==
    LET r == ConfigGetAll(heap, values, Roots(mapping, values, NoRef))
    IN  /\ handle
        /\ got' = r.ref
        /\ heap' = Collect(r.heap, Roots(mapping, values, r.ref))
        /\ Record("Config.GetAll", "", "", "", FALSE, Nil)
        /\ UNCHANGED <<mapping, values, env, handle>>

HandleGetValue(k) ==
    /\ handle
    /\ Record("Config.GetValue", k, "", ConfigGetValue(HandleStore, k), FALSE, Nil)
    /\ UNCHANGED <<heap, mapping, values, env, handle, got>>

\* ------------------------------------------------------------ the caller
\* The caller writes or deletes an entry of the map GetAll gave it, or lets
\* go of that map.
CallerPut(k, v) ==
    /\ got # NoRef
    /\ heap' = [heap EXCEPT ![got] = MapPut(heap[got], k, v)]
    /\ Record("CallerPut", k, v, "", FALSE, Nil)
    /\ UNCHANGED <<mapping, values, env, handle, got>>

CallerRemove(k) ==
    /\ got # NoRef
    /\ heap' = [heap EXCEPT ![got] = MapDelete(heap[got], k)]
    /\ Record("CallerRemove", k, "", "", FALSE, Nil)
    /\ UNCHANGED <<mapping, values, env, handle, got>>

DropResult ==
    /\ got # NoRef
    /\ got' = NoRef
    /\ heap' = Collect(heap, Roots(mapping, values, NoRef))
    /\ Record("DropResult", "", "", "", FALSE, Nil)
    /\ UNCHANGED <<mapping, values, env, handle>>

\* The caller's own ConfigMapping value, the one it passed to New: the caller
\* adds or changes an entry of it, or deletes one, after New returned.
CallerMap == 1

CallerMapPut(k, n) ==
    /\ heap' = [heap EXCEPT ![CallerMap] = MapPut(heap[CallerMap], k, n)]
    /\ Record("CallerMapPut", k, n, "", FALSE, Nil)
    /\ UNCHANGED <<mapping, values, env, handle, got>>

CallerMapRemove(k) ==
    /\ heap' = [heap EXCEPT ![CallerMap] = MapDelete(heap[CallerMap], k)]
    /\ Record("CallerMapRemove", k, "", "", FALSE, Nil)
    /\ UNCHANGED <<mapping, values, env, handle, got>>

\* ------------------------------------------ the one-shot Load(path, &target)
\* Load(path, &target) is called by the tests; its code is described by the
\* specification only.
\* Names the fields' env tags use: K3 is defined by no file and no environment.
ReflectNames == EnvNames \cup {"K3"}
\* A field without an env tag.
NoTag == ""
\* A field: its env tag, and whether it is a settable string field.
FieldKinds ==
    {[tag |-> n, str |-> TRUE] : n \in ReflectNames \cup {NoTag}}
        \cup {[tag |-> n, str |-> FALSE] : n \in EnvNames}
Structs == UNION {[1..n -> FieldKinds] : n \in 0..MaxFields}
\* What the caller passes as the target: a pointer to its struct, the struct
\* by value, or a pointer to something that is no struct.
PtrStruct == "*struct"
TargetKinds == {PtrStruct, "struct", "*string"}
\* The value the caller's fields hold before the first Load.
OldValue == "old"

ErrInvalidTarget == "invalid target"
ErrMissing == "missing required environment variables"
MissingPrefix == "missing required environment variables: "

\* strings.Join
RECURSIVE Join(_, _)
Join(names, sep) ==
    IF names = <<>> THEN ""
    ELSE IF Len(names) = 1 THEN names[1]
    ELSE names[1] \o sep \o Join(Tail(names), sep)

\* The fields' own names, in declaration order: names that the file or the
\* environment may define as well.
FieldNames == <<"K1", "K2", "K3", "K4">>
FieldName(i) == FieldNames[i]

\* The walk over the fields that looks a field without a tag up under the
\* field's own name.
RECURSIVE ReflectFillByName(_, _, _, _, _)
ReflectFillByName(fs, tgt, e, i, miss) ==
    LET n == IF fs[i].tag = NoTag THEN FieldName(i) ELSE fs[i].tag
    IN  IF i > Len(fs) THEN [target |-> tgt, missing |-> miss]
        ELSE IF ~fs[i].str
             THEN ReflectFillByName(fs, tgt, e, i + 1, miss)
        ELSE IF n \in DOMAIN e
             THEN ReflectFillByName(fs, [tgt EXCEPT ![i] = e[n]], e, i + 1, miss)
        ELSE ReflectFillByName(fs, tgt, e, i + 1, Append(miss, n))

\* The walk over the fields that gives up at the first name that is missing.
RECURSIVE ReflectFillFailFast(_, _, _, _, _)
ReflectFillFailFast(fs, tgt, e, i, miss) ==
    IF i > Len(fs) THEN [target |-> tgt, missing |-> miss]
    ELSE IF fs[i].tag = NoTag \/ ~fs[i].str
         THEN ReflectFillFailFast(fs, tgt, e, i + 1, miss)
    ELSE IF fs[i].tag \in DOMAIN e
         THEN ReflectFillFailFast(fs, [tgt EXCEPT ![i] = e[fs[i].tag]], e, i + 1, miss)
    ELSE [target |-> tgt, missing |-> Append(miss, fs[i].tag)]

\* The walk over the fields, from field i on: a field without a tag is
\* skipped, one that is no settable string is skipped with a warning, one
\* whose name resolves is set, and the name of one that does not is noted.
RECURSIVE ReflectFill(_, _, _, _, _)
ReflectFill(fs, tgt, e, i, miss) ==
    IF i > Len(fs) THEN [target |-> tgt, missing |-> miss]
    ELSE IF fs[i].tag = NoTag \/ ~fs[i].str
         THEN ReflectFill(fs, tgt, e, i + 1, miss)
    ELSE IF fs[i].tag \in DOMAIN e
         THEN ReflectFill(fs, [tgt EXCEPT ![i] = e[fs[i].tag]], e, i + 1, miss)
    ELSE ReflectFill(fs, tgt, e, i + 1, Append(miss, fs[i].tag))

\* The call record of a one-shot Load.
ReflectRecord(path, kind, e, m) ==
    /\ op' = "ReflectLoad"
    /\ val' = path
    /\ err' = e
    /\ msg' = m
    /\ tkind' = kind
    /\ tbefore' = target
    /\ UNCHANGED <<heap, mapping, values, handle, got, key, ret, ok, before, fields>>
    /\ UNCHANGED <<conc, logger>>

\* Load(path, target) that walks the fields of whatever it is given.
ReflectLoadAnyTarget(path, kind) ==
    LET src == IF path = "" THEN [ok |-> TRUE, env |-> env]
               ELSE GodotenvLoad(env, path)
        r == ReflectFill(fields, target, src.env, 1, <<>>)
    IN  IF ~src.ok
        THEN /\ ReflectRecord(path, kind, ErrLoadEnv, ErrLoadEnv)
             /\ UNCHANGED <<env, target>>
        ELSE /\ env' = src.env
             /\ target' = r.target
             /\ IF r.missing = <<>>
                THEN ReflectRecord(path, kind, Nil, "")
                ELSE ReflectRecord(path, kind, ErrMissing,
                                   MissingPrefix \o Join(r.missing, ", "))

\* Load(path, target): the target must be a pointer to a struct; an empty
\* path reads the process environment alone, another path is loaded first;
\* then the fields are walked and the missing names reported in one error.
ReflectLoad(path, kind) ==
    LET src == IF path = "" THEN [ok |-> TRUE, env |-> env]
               ELSE GodotenvLoad(env, path)
        r == ReflectFill(fields, target, src.env, 1, <<>>)
    IN  IF kind # PtrStruct
        THEN /\ ReflectRecord(path, kind, ErrInvalidTarget, ErrInvalidTarget)
             /\ UNCHANGED <<env, target>>
        ELSE IF ~src.ok
        THEN /\ ReflectRecord(path, kind, ErrLoadEnv, ErrLoadEnv)
             /\ UNCHANGED <<env, target>>
        ELSE /\ env' = src.env
             /\ target' = r.target
             /\ IF r.missing = <<>>
                THEN ReflectRecord(path, kind, Nil, "")
                ELSE ReflectRecord(path, kind, ErrMissing,
                                   MissingPrefix \o Join(r.missing, ", "))

\* ------------------------------------------- goroutines and Service.mu
\* Each goroutine calls the Service, or the handle Config() returned, on one
\* key. A call is made, takes the lock its method takes, acts, and returns.
TheKey == KeyNames[1]
ReadOps == {"Get"}
\* The methods that read under s.mu.RLock().
SharedOps == ReadOps \cup {"GetAll"}
WriteOps == {"Set", "Delete", "Clear"}
\* The methods that take s.mu.RLock().
RLockOps == SharedOps \cup {"Has"}
\* The methods that act under s.mu.Lock().
LockOps == WriteOps \cup {"Load"}
\* The Go runtime stops the program when it detects a map read during a write.
Running == \A t \in Threads : thr[t].pc # "fatal"
Writing == {t \in Threads : thr[t].pc = "writing"}
Reading == {t \in Threads : thr[t].pc = "reading"}
\* The goroutines inside s.mu.Lock(), waiting for the readers to leave.
Pending == {t \in Threads : thr[t].pc = "pending" /\ thr[t].op \in LockOps}

\* An RLock that a writer does not hold back.
CanRLockAlways(t) == TRUE
\* An RLock that waits for the readers as it waits for the writers.
CanRLockExclusive(t) == mu.writer = NoThread /\ Pending = {} /\ mu.readers = {}
\* s.mu.RLock() returns once no goroutine holds the lock for writing or is
\* inside Lock() waiting for it: a blocked Lock keeps new readers out.
CanRLock(t) == mu.writer = NoThread /\ Pending = {}
\* A Lock that nothing holds back.
CanLockAlways(t) == TRUE
\* s.mu.Lock() returns once no goroutine holds the lock at all.
CanLock(t) == mu.writer = NoThread /\ mu.readers = {}

\* What a goroutine's step leaves alone besides the Store.
Rest == UNCHANGED <<mapping, env, handle, got, refl, logger>>
\* A step of a call that does not return: the record of the last call stays.
Sequential ==
    /\ UNCHANGED <<op, key, val, ret, ok, err, before>>
    /\ Rest
\* The call of goroutine t returns r and e: it is the last call made.
Return(t, r, e) ==
    /\ op' = thr[t].op
    /\ key' = TheKey
    /\ val' = thr[t].val
    /\ ret' = r
    /\ err' = e
    /\ UNCHANGED <<ok, before>>
    /\ Rest

\* A goroutine calls a method of the Service.
Call(t, o, v) ==
    /\ Running
    /\ thr[t].pc = "idle"
    /\ thr' = [thr EXCEPT ![t] =
                  [pc |-> "called", op |-> o,
                   val |-> IF o \in {"Set", "Load"} THEN v ELSE "",
                   acq |-> NoWrite, raced |-> FALSE, todo |-> {}]]
    /\ UNCHANGED <<heap, values, mu, hist>>
    /\ Sequential

\* s.mu.RLock() of Service.Get, Service.Has and Service.GetAll.
RLock(t) ==
    /\ Running
    /\ thr[t].pc = "called"
    /\ thr[t].op \in RLockOps
    /\ CanRLock(t)
    /\ mu' = [mu EXCEPT !.readers = @ \cup {t}]
    /\ thr' = [thr EXCEPT ![t].pc = "reading", ![t].acq = hist.last,
                          ![t].raced = Writing # {}]
    /\ UNCHANGED <<heap, values, hist>>
    /\ Sequential

\* What a read of the Store's map gives the goroutine: the entry, or, when a
\* write went on during the read, the entry, a torn value or a fatal error.
ReadOutcomes(t) ==
    LET r == ConfigGet(Store, TheKey)
        read == [fatal |-> FALSE, ret |-> r.ret, err |-> r.err]
    IN  IF thr[t].raced
        THEN {read, [fatal |-> FALSE, ret |-> Torn, err |-> Nil],
              [fatal |-> TRUE, ret |-> "", err |-> Nil]}
        ELSE {read}

\* The read of goroutine t ends with outcome o: the call returns, or the
\* program stops.
ReadEnds(t, o) ==
    IF o.fatal
    THEN /\ thr' = [thr EXCEPT ![t].pc = "fatal"]
         /\ UNCHANGED hist
         /\ Sequential
    ELSE /\ thr' = [thr EXCEPT ![t] = IdleThread]
         /\ UNCHANGED hist
         /\ Return(t, o.ret, o.err)

\* Service.Get: s.config.Get(key), then the deferred RUnlock.
GetReturn(t) ==
    /\ Running
    /\ thr[t].pc = "reading"
    /\ thr[t].op = "Get"
    /\ \E o \in ReadOutcomes(t) : ReadEnds(t, o)
    /\ mu' = [mu EXCEPT !.readers = @ \ {t}]
    /\ UNCHANGED <<heap, values>>

\* s.mu.Lock() of Service.Load, Set, Delete and Clear is entered: one
\* goroutine at a time gets past the other writers, and from then on new
\* readers wait.
LockPending(t) ==
    /\ Running
    /\ thr[t].pc = "called"
    /\ thr[t].op \in LockOps
    /\ mu.writer = NoThread
    /\ Pending = {}
    /\ thr' = [thr EXCEPT ![t].pc = "pending"]
    /\ UNCHANGED <<heap, values, mu, hist>>
    /\ Sequential

\* s.mu.Lock() of Service.Load, Set, Delete and Clear returns.
Lock(t) ==
    /\ Running
    /\ thr[t].pc = "pending"
    /\ thr[t].op \in LockOps
    /\ CanLock(t)
    /\ mu' = [mu EXCEPT !.writer = t]
    /\ thr' = [u \in Threads |->
                  IF u = t THEN [thr[u] EXCEPT !.pc = "writing"]
                  ELSE IF thr[u].pc = "reading" THEN [thr[u] EXCEPT !.raced = TRUE]
                  ELSE thr[u]]
    /\ hist' = IF thr[t].op = "Set"
               THEN [hist EXCEPT !.written = @ \cup {thr[t].val}]
               ELSE hist
    /\ UNCHANGED <<heap, values>>
    /\ Sequential

\* The deferred Unlock of a write, and the write's place in the order.
Unlock(t, kind) ==
    /\ mu' = [mu EXCEPT !.writer = NoThread]
    /\ thr' = [thr EXCEPT ![t] = IdleThread]
    /\ hist' = [hist EXCEPT !.last = [kind |-> kind, val |-> thr[t].val]]
    /\ Return(t, "", Nil)

\* Service.Set: the write of the entry, then the deferred Unlock.
SetReturn(t) ==
    /\ Running
    /\ thr[t].pc = "writing"
    /\ thr[t].op = "Set"
    /\ heap' = [heap EXCEPT ![values] = MapPut(Store, TheKey, thr[t].val)]
    /\ UNCHANGED values
    /\ Unlock(t, "Set")

\* Service.Delete: the delete of the entry, then the deferred Unlock.
DeleteReturn(t) ==
    /\ Running
    /\ thr[t].pc = "writing"
    /\ thr[t].op = "Delete"
    /\ heap' = [heap EXCEPT ![values] = MapDelete(Store, TheKey)]
    /\ UNCHANGED values
    /\ Unlock(t, "Delete")

\* Service.GetAll: s.config.GetAll() copies the entries into a new map, then
\* the deferred RUnlock; the caller lets go of the map an earlier GetAll gave
\* it. A copy that a write went on during may hold only some of the entries.
GetAllReturn(t) ==
    /\ Running
    /\ thr[t].pc = "reading"
    /\ thr[t].op = "GetAll"
    /\ LET r == ConfigGetAll(heap, values, Roots(mapping, values, NoRef))
       IN  /\ got' = r.ref
           /\ \E D \in IF thr[t].raced THEN SUBSET DOMAIN Store ELSE {DOMAIN Store} :
                  heap' = Collect([r.heap EXCEPT ![r.ref] = [k \in D |-> Store[k]]],
                                  Roots(mapping, values, r.ref))
    /\ mu' = [mu EXCEPT !.readers = @ \ {t}]
    /\ thr' = [thr EXCEPT ![t] = IdleThread]
    /\ op' = "GetAll"
    /\ key' = ""
    /\ val' = ""
    /\ ret' = ""
    /\ err' = Nil
    /\ UNCHANGED <<values, hist, ok, before, mapping, env, handle, refl, logger>>

\* Service.Clear that deletes the entries one Delete at a time, the lock
\* released after each.
ClearReturnOneByOne(t) ==
    /\ Running
    /\ thr[t].pc = "writing"
    /\ thr[t].op = "Clear"
    /\ IF Store = EmptyMap
       THEN /\ UNCHANGED <<heap, values>>
            /\ Unlock(t, "Clear")
       ELSE /\ \E k \in DOMAIN Store :
                   heap' = [heap EXCEPT ![values] = MapDelete(Store, k)]
            /\ mu' = [mu EXCEPT !.writer = NoThread]
            /\ thr' = [thr EXCEPT ![t].pc = "called"]
            /\ UNCHANGED <<values, hist>>
            /\ Sequential

\* Service.Clear: the new empty map, then the deferred Unlock.
ClearReturn(t) ==
    /\ Running
    /\ thr[t].pc = "writing"
    /\ thr[t].op = "Clear"
    /\ LET r == NewRef(Roots(mapping, NoRef, got))
       IN  /\ values' = r
           /\ heap' = Collect((r :> EmptyMap) @@ heap, Roots(mapping, r, got))
    /\ Unlock(t, "Clear")

\* Service.Set with the empty key: ErrEmptyKey is returned before s.mu.Lock()
\* is reached.
SetEmptyKey(t, v) ==
    /\ Running
    /\ thr[t].pc = "idle"
    /\ op' = "Set"
    /\ key' = ""
    /\ val' = v
    /\ ret' = ""
    /\ err' = ErrEmptyKey
    /\ UNCHANGED <<heap, values, thr, mu, hist, ok, before>>
    /\ Rest

\* Service.Load that returns ErrLoadEnv without the deferred Unlock.
LoadReturnKeepsLock(t) ==
    /\ Running
    /\ thr[t].pc = "writing"
    /\ thr[t].op = "Load"
    /\ LET r == GodotenvLoad(env, thr[t].val)
       IN  /\ env' = r.env
           /\ heap' = IF r.ok
                      THEN [heap EXCEPT ![values] = LoadMapped(Store, Mapping, r.env)]
                      ELSE heap
           /\ hist' = IF r.ok
                      THEN [hist EXCEPT !.last = [kind |-> "Load", val |-> thr[t].val]]
                      ELSE hist
           /\ mu' = IF r.ok THEN [mu EXCEPT !.writer = NoThread] ELSE mu
           /\ err' = IF r.ok THEN Nil ELSE ErrLoadEnv
    /\ thr' = [thr EXCEPT ![t] = IdleThread]
    /\ op' = "Load"
    /\ key' = ""
    /\ val' = thr[t].val
    /\ ret' = ""
    /\ UNCHANGED <<values, ok, before, mapping, handle, got, refl, logger>>

\* Service.Load: godotenv.Load, then either the return of ErrLoadEnv or the
\* loop over the mapping; the deferred Unlock runs on both returns.
LoadReturn(t) ==
    /\ Running
    /\ thr[t].pc = "writing"
    /\ thr[t].op = "Load"
    /\ LET r == GodotenvLoad(env, thr[t].val)
       IN  /\ env' = r.env
           /\ heap' = IF r.ok
                      THEN [heap EXCEPT ![values] = LoadMapped(Store, Mapping, r.env)]
                      ELSE heap
           /\ hist' = IF r.ok
                      THEN [hist EXCEPT !.last = [kind |-> "Load", val |-> thr[t].val]]
                      ELSE hist
           /\ err' = IF r.ok THEN Nil ELSE ErrLoadEnv
    /\ mu' = [mu EXCEPT !.writer = NoThread]
    /\ thr' = [thr EXCEPT ![t] = IdleThread]
    /\ op' = "Load"
    /\ key' = ""
    /\ val' = thr[t].val
    /\ ret' = ""
    /\ UNCHANGED <<values, ok, before, mapping, handle, got, refl, logger>>

\* Service.Has: s.config.Has(key), then the deferred RUnlock. A read that a
\* write went on during may give either answer, or stop the program.
HasReturn(t) ==
    /\ Running
    /\ thr[t].pc = "reading"
    /\ thr[t].op = "Has"
    /\ \E o \in ReadOutcomes(t) :
           IF o.fatal
           THEN /\ ReadEnds(t, o)
                /\ UNCHANGED mu
           ELSE /\ mu' = [mu EXCEPT !.readers = @ \ {t}]
                /\ thr' = [thr EXCEPT ![t] = IdleThread]
                /\ op' = "Has"
                /\ key' = TheKey
                /\ val' = ""
                /\ ret' = ""
                /\ ok' \in IF thr[t].raced THEN BOOLEAN ELSE {ConfigHas(Store, TheKey)}
                /\ err' = Nil
                /\ UNCHANGED <<hist, before>>
                /\ Rest
    /\ UNCHANGED <<heap, values>>

\* Service.Load, step by step. godotenv.Load under the lock: ErrLoadEnv and the
\* deferred Unlock when it fails, else the loop over the mapping starts.
LoadEnv(t) ==
    /\ Running
    /\ thr[t].pc = "writing"
    /\ thr[t].op = "Load"
    /\ LET r == GodotenvLoad(env, thr[t].val)
       IN  /\ env' = r.env
           /\ IF r.ok
              THEN /\ thr' = [thr EXCEPT ![t].pc = "loading",
                                         ![t].todo = DOMAIN Mapping]
                   /\ UNCHANGED <<mu, op, key, val, ret, err>>
              ELSE /\ thr' = [thr EXCEPT ![t] = IdleThread]
                   /\ mu' = [mu EXCEPT !.writer = NoThread]
                   /\ op' = "Load"
                   /\ key' = ""
                   /\ val' = thr[t].val
                   /\ ret' = ""
                   /\ err' = ErrLoadEnv
    /\ UNCHANGED <<heap, values, hist, ok, before, mapping, handle, got, refl, logger>>

\* What one pass of the loop does to the Store for the entry ck.
LoadEntryWrites(t, ck) ==
    /\ heap' = IF Mapping[ck] \in DOMAIN env
               THEN [heap EXCEPT ![values] = MapPut(Store, ck, env[Mapping[ck]])]
               ELSE heap
    /\ UNCHANGED <<values, hist>>
    /\ Sequential

\* A loop of Load that lets go of the lock after every entry it writes.
LoadEntryYields(t) ==
    /\ Running
    /\ thr[t].pc = "loading"
    /\ \E ck \in thr[t].todo :
           /\ LoadEntryWrites(t, ck)
           /\ thr' = [thr EXCEPT ![t].todo = @ \ {ck}]
    /\ mu' = [mu EXCEPT !.writer = NoThread]

\* One pass of the loop of Load over s.mapping, which Go ranges over in any
\* order: os.LookupEnv, and the write of values[configKey] when it is defined.
LoadEntry(t) ==
    /\ Running
    /\ thr[t].pc = "loading"
    /\ \E ck \in thr[t].todo :
           /\ LoadEntryWrites(t, ck)
           /\ thr' = [thr EXCEPT ![t].todo = @ \ {ck}]
    /\ UNCHANGED mu

\* The loop of Load is over: the return of nil and the deferred Unlock.
LoadDone(t) ==
    /\ Running
    /\ thr[t].pc = "loading"
    /\ thr[t].todo = {}
    /\ mu' = [mu EXCEPT !.writer = NoThread]
    /\ thr' = [thr EXCEPT ![t] = IdleThread]
    /\ hist' = [hist EXCEPT !.last = [kind |-> "Load", val |-> thr[t].val]]
    /\ op' = "Load"
    /\ key' = ""
    /\ val' = thr[t].val
    /\ ret' = ""
    /\ err' = Nil
    /\ UNCHANGED <<heap, values, ok, before>>
    /\ Rest

\* Config.Get on the handle: the goroutine reads the map, no lock taken.
HandleGetCall(t) ==
    /\ Running
    /\ handle
    /\ thr[t].pc = "idle"
    /\ thr' = [thr EXCEPT ![t] =
                  [pc |-> "reading", op |-> "Config.Get", val |-> "",
                   acq |-> NoWrite, raced |-> Writing # {}, todo |-> {}]]
    /\ UNCHANGED <<heap, values, mu, hist>>
    /\ Sequential

\* Config.Get on the handle returns what it read.
HandleGetReturn(t) ==
    /\ Running
    /\ thr[t].pc = "reading"
    /\ thr[t].op = "Config.Get"
    /\ \E o \in ReadOutcomes(t) : ReadEnds(t, o)
    /\ UNCHANGED <<heap, values, mu>>

\* ---------------------------------------------------------- the logger
\* What a step in the logger leaves alone.
LoggerRest ==
    UNCHANGED <<heap, mapping, values, env, handle, got, refl, mu, hist,
                key, val, ret, err, before>>

\* A goroutine calls a function of the logger.
LoggerCall(t, o) ==
    /\ thr[t].pc = "idle"
    /\ thr' = [thr EXCEPT ![t] = [IdleThread EXCEPT !.pc = "called", !.op = o]]
    /\ UNCHANGED <<logger, op, ok>>
    /\ LoggerRest

\* globalLogger.mu.RLock() of IsLoggingEnabled.
LoggerRLock(t) ==
    /\ thr[t].pc = "called"
    /\ thr[t].op = "IsLoggingEnabled"
    /\ LoggerCanRLock(t)
    /\ logger' = [logger EXCEPT !.readers = @ \cup {t}]
    /\ thr' = [thr EXCEPT ![t].pc = "reading", ![t].acq = logger.last]
    /\ UNCHANGED <<op, ok>>
    /\ LoggerRest

\* IsLoggingEnabled: the read of enabled, then the deferred RUnlock.
IsLoggingEnabledReturn(t) ==
    /\ thr[t].pc = "reading"
    /\ thr[t].op = "IsLoggingEnabled"
    /\ logger' = [logger EXCEPT !.readers = @ \ {t}]
    /\ thr' = [thr EXCEPT ![t] = IdleThread]
    /\ op' = "IsLoggingEnabled"
    /\ ok' = logger.enabled
    /\ LoggerRest

\* globalLogger.mu.Lock() of EnableLogging and DisableLogging is entered.
LoggerLockPending(t) ==
    /\ thr[t].pc = "called"
    /\ thr[t].op \in ToggleOps
    /\ logger.writer = NoThread
    /\ LoggerPending = {}
    /\ thr' = [thr EXCEPT ![t].pc = "pending"]
    /\ UNCHANGED <<logger, op, ok>>
    /\ LoggerRest

\* globalLogger.mu.Lock() of EnableLogging and DisableLogging returns.
LoggerLock(t) ==
    /\ thr[t].pc = "pending"
    /\ thr[t].op \in ToggleOps
    /\ LoggerCanLock(t)
    /\ logger' = [logger EXCEPT !.writer = t]
    /\ thr' = [thr EXCEPT ![t].pc = "writing"]
    /\ UNCHANGED <<op, ok>>
    /\ LoggerRest

\* The write of enabled by goroutine t, then the deferred Unlock.
Toggle(t, o, b) ==
    /\ thr[t].pc = "writing"
    /\ thr[t].op = o
    /\ logger' = [logger EXCEPT !.enabled = b, !.writer = NoThread,
                                !.last = [kind |-> o, val |-> ""]]
    /\ thr' = [thr EXCEPT ![t] = IdleThread]
    /\ op' = o
    /\ UNCHANGED ok
    /\ LoggerRest

\* EnableLogging
EnableLoggingReturn(t) == Toggle(t, "EnableLogging", TRUE)

\* DisableLogging
DisableLoggingReturn(t) == Toggle(t, "DisableLogging", FALSE)

\* ------------------------------------------------------- specifications
\* Spec: any mapping and environment.  The caller lets go of the map a GetAll
\* gave it (DropResult) before it makes its next call.
Next ==
    \/ got = NoRef /\ \E p \in Paths : ServiceLoad(p)
    \/ got = NoRef /\ \E k \in Keys : ServiceGet(k)
    \/ got = NoRef /\ \E k \in Keys, d \in Values : ServiceGetOrDefault(k, d)
    \/ got = NoRef /\ \E k \in Keys : ServiceHas(k)
    \/ got = NoRef /\ ServiceGetAll
    \/ got = NoRef /\ \E k \in Keys, v \in Values : ServiceSet(k, v)
    \/ got = NoRef /\ \E k \in Keys : ServiceDelete(k)
    \/ got = NoRef /\ ServiceClear
    \/ got = NoRef /\ ServiceConfig
    \/ got = NoRef /\ \E k \in Keys : HandleGet(k)
    \/ got = NoRef /\ \E k \in Keys, d \in Values : HandleGetOrDefault(k, d)
    \/ got = NoRef /\ \E k \in Keys : HandleHas(k)
    \/ got = NoRef /\ HandleGetAll
    \/ got = NoRef /\ \E k \in Keys : HandleGetValue(k)
    \/ DropResult

Spec == Init /\ [][Next]_vars

\* SpecCopy: one mapping and environment; the caller keeps the map a GetAll
\* gave it across later calls and changes it.
InitCopy ==
    /\ Init
    /\ Mapping = [k \in {KeyNames[1]} |-> "K1"]
    /\ env = EmptyMap

NextCopy ==
    \/ \E p \in Paths : ServiceLoad(p)
    \/ ServiceGetAll
    \/ \E k \in Keys, v \in Values : ServiceSet(k, v)
    \/ \E k \in Keys : ServiceDelete(k)
    \/ ServiceClear
    \/ \E k \in Keys, v \in Values : CallerPut(k, v)
    \/ \E k \in Keys : CallerRemove(k)
    \/ DropResult

SpecCopy == InitCopy /\ [][NextCopy]_vars

\* SpecMapping: the caller goes on changing the mapping it passed to New
\* between the Service's loads.
NextMapping ==
    \/ \E p \in Paths : ServiceLoad(p)
    \/ \E k \in Keys : ServiceGet(k)
    \/ ServiceClear
    \/ \E k \in MapKeys, n \in EnvNames : CallerMapPut(k, n)
    \/ \E k \in MapKeys : CallerMapRemove(k)

SpecMapping == Init /\ [][NextMapping]_vars

\* SpecReflect: the one-shot Load called again and again on one struct, for
\* every struct type and environment.
InitReflect ==
    /\ Quiet
    /\ heap = (1 :> EmptyMap) @@ (2 :> EmptyMap)
    /\ mapping = 1
    /\ values = 2
    /\ env \in Envs
    /\ handle = FALSE
    /\ got = NoRef
    /\ op = "New"
    /\ key = ""
    /\ val = ""
    /\ ret = ""
    /\ ok = FALSE
    /\ err = Nil
    /\ before = EmptyMap
    /\ fields \in Structs
    /\ target = [i \in 1..Len(fields) |-> OldValue]
    /\ tbefore = target
    /\ tkind = ""
    /\ msg = ""

NextReflect == \E p \in Paths, k \in TargetKinds : ReflectLoad(p, k)

SpecReflect == InitReflect /\ [][NextReflect]_vars

\* SpecSetGet: goroutines call Set and Get of one Service at once.
\* SpecConc: they call every write, Get, and Get on the handle that the
\* caller took from Config() before it started them.
InitConc ==
    /\ NoTarget
    /\ Quiet
    /\ heap = (1 :> EmptyMap) @@ (2 :> EmptyMap)
    /\ mapping = 1
    /\ values = 2
    /\ env = EmptyMap
    /\ handle = TRUE
    /\ got = NoRef
    /\ op = "Config"
    /\ key = ""
    /\ val = ""
    /\ ret = ""
    /\ ok = FALSE
    /\ err = Nil
    /\ before = EmptyMap

NextSetGet ==
    \E t \in Threads :
        \/ \E o \in {"Get", "Set"}, v \in Values : Call(t, o, v)
        \/ RLock(t)
        \/ GetReturn(t)
        \/ LockPending(t)
        \/ Lock(t)
        \/ SetReturn(t)

SpecSetGet == InitConc /\ [][NextSetGet]_vars

NextConc ==
    \E t \in Threads :
        \/ \E o \in ReadOps \cup WriteOps, v \in Values : Call(t, o, v)
        \/ RLock(t)
        \/ GetReturn(t)
        \/ LockPending(t)
        \/ Lock(t)
        \/ SetReturn(t)
        \/ DeleteReturn(t)
        \/ ClearReturn(t)
        \/ HandleGetCall(t)
        \/ HandleGetReturn(t)

SpecConc == InitConc /\ [][NextConc]_vars

\* SpecLogger: goroutines toggle the logger and read the toggle at once.
NextLogger ==
    \E t \in Threads :
        \/ \E o \in LoggerOps : LoggerCall(t, o)
        \/ LoggerRLock(t)
        \/ IsLoggingEnabledReturn(t)
        \/ LoggerLockPending(t)
        \/ LoggerLock(t)
        \/ EnableLoggingReturn(t)
        \/ DisableLoggingReturn(t)

SpecLogger == InitConc /\ [][NextLogger]_vars

\* SpecClear: the Store holds entries, and goroutines call GetAll and Clear
\* at once; no other write is made.
ClearKeys == {KeyNames[1], KeyNames[2]}
InitClear ==
    /\ NoTarget
    /\ Quiet
    /\ \E m \in MapsOver(ClearKeys, Values) \ {EmptyMap} :
           /\ heap = (1 :> EmptyMap) @@ (2 :> m)
           /\ before = m
    /\ mapping = 1
    /\ values = 2
    /\ env = EmptyMap
    /\ handle = FALSE
    /\ got = NoRef
    /\ op = "Set"
    /\ key = KeyNames[1]
    /\ val = ""
    /\ ret = ""
    /\ ok = FALSE
    /\ err = Nil

NextClear ==
    \E t \in Threads :
        \/ \E o \in {"GetAll", "Clear"} : Call(t, o, "")
        \/ RLock(t)
        \/ GetAllReturn(t)
        \/ LockPending(t)
        \/ Lock(t)
        \/ ClearReturn(t)

SpecClear == InitClear /\ [][NextClear]_vars

\* SpecLive: goroutines call Get, GetAll, Set, Delete, Clear and Load at
\* once, Set with the empty key and Load with a path that cannot be read
\* among the calls; the mapping names one variable, which the file defines.
LivePaths == {GoodPath, "missing.env"}
InitLive ==
    /\ NoTarget
    /\ Quiet
    /\ heap = (1 :> (TheKey :> "K1")) @@ (2 :> EmptyMap)
    /\ mapping = 1
    /\ values = 2
    /\ env = EmptyMap
    /\ handle = FALSE
    /\ got = NoRef
    /\ op = "Get"
    /\ key = TheKey
    /\ val = ""
    /\ ret = ""
    /\ ok = FALSE
    /\ err = ErrKeyNotFound
    /\ before = EmptyMap

NextLive ==
    \E t \in Threads :
        \/ \E o \in SharedOps \cup WriteOps : Call(t, o, "v")
        \/ \E p \in LivePaths : Call(t, "Load", p)
        \/ SetEmptyKey(t, "v")
        \/ RLock(t)
        \/ GetReturn(t)
        \/ GetAllReturn(t)
        \/ LockPending(t)
        \/ Lock(t)
        \/ SetReturn(t)
        \/ DeleteReturn(t)
        \/ ClearReturn(t)
        \/ LoadReturn(t)

\* A goroutine that asked for s.mu gets it: the runtime hands a released lock
\* to the goroutines blocked on it, the readers a writer held back before the
\* next writer, and a writer once the readers before it have left.
Acquire(t) == RLock(t) \/ LockPending(t)
\* A goroutine that may run does run: it leaves Lock() once nothing holds the
\* lock, and it runs the method's body to the return.
Finish(t) ==
    \/ Lock(t)
    \/ GetReturn(t)
    \/ GetAllReturn(t)
    \/ SetReturn(t)
    \/ DeleteReturn(t)
    \/ ClearReturn(t)
    \/ LoadReturn(t)

FairLive == \A t \in Threads : SF_vars(Acquire(t)) /\ WF_vars(Finish(t))

SpecLive == InitLive /\ [][NextLive]_vars /\ FairLive

\* SpecLoad: the mapping names two variables, one that the process
\* environment defines and one that the file defines, and goroutines call
\* Load, Get, Has and GetAll at once on the Store New made; no other write
\* is made.
LoadKeys == {KeyNames[1], KeyNames[2]}
InitLoad ==
    /\ NoTarget
    /\ Quiet
    /\ heap = (1 :> ((KeyNames[1] :> "K1") @@ (KeyNames[2] :> "K2"))) @@ (2 :> EmptyMap)
    /\ mapping = 1
    /\ values = 2
    /\ \E x \in Values : env = ("K2" :> x)
    /\ handle = FALSE
    /\ got = NoRef
    /\ op = "New"
    /\ key = ""
    /\ val = ""
    /\ ret = ""
    /\ ok = FALSE
    /\ err = Nil
    /\ before = EmptyMap

NextLoad ==
    \E t \in Threads :
        \/ \E o \in RLockOps : Call(t, o, "")
        \/ \E p \in LivePaths : Call(t, "Load", p)
        \/ RLock(t)
        \/ GetReturn(t)
        \/ HasReturn(t)
        \/ GetAllReturn(t)
        \/ LockPending(t)
        \/ Lock(t)
        \/ LoadEnv(t)
        \/ LoadEntry(t)
        \/ LoadDone(t)

SpecLoad == InitLoad /\ [][NextLoad]_vars

\* SpecLog: one caller makes a Service anew and calls Load, Set, Delete and
\* Clear on it while goroutines enable and disable logging; the mapping names
\* one variable, which the file defines.
InitLog ==
    /\ NoTarget
    /\ Quiet
    /\ heap = (1 :> (TheKey :> "K1")) @@ (2 :> EmptyMap)
    /\ mapping = 1
    /\ values = 2
    /\ env = EmptyMap
    /\ handle = FALSE
    /\ got = NoRef
    /\ op = "New"
    /\ key = ""
    /\ val = ""
    /\ ret = ""
    /\ ok = FALSE
    /\ err = Nil
    /\ before = EmptyMap

NextLog ==
    \/ ServiceNew
    \/ \E p \in LivePaths : ServiceLoad(p)
    \/ \E k \in {"", TheKey} : ServiceSet(k, "v")
    \/ ServiceDelete(TheKey)
    \/ ServiceClear
    \/ \E t \in Threads :
           \/ \E o \in ToggleOps : LoggerCall(t, o)
           \/ LoggerLockPending(t)
           \/ LoggerLock(t)
           \/ EnableLoggingReturn(t)
           \/ DisableLoggingReturn(t)

SpecLog == InitLog /\ [][NextLog]_vars

\* ---------------------------------------------------------------- claims
GetOps == {"Get", "Config.Get"}
GetOrDefaultOps == {"GetOrDefault", "Config.GetOrDefault"}
StoreWrites == {"Set", "Delete", "Clear", "Load"}
CallerWrites == {"CallerPut", "CallerRemove"}
\* What GetAll returns in the current state: the contents of the new map.
GetAllResult ==
    LET r == ConfigGetAll(heap, values, Roots(mapping, values, NoRef))
    IN  r.heap[r.ref]

\* C1: Set(k, v) with a non-empty key returns no error, and a Get(k) made
\* right after it returns v and no error, also when k held another value.
C1_SetThenGet ==
    (op = "Set" /\ key # "") =>
        /\ err = Nil
        /\ ConfigGet(Store, key) = [ret |-> val, err |-> Nil]

C1_Witness ==
    /\ op = "Set"
    /\ key # ""
    /\ key \in DOMAIN before
    /\ before[key] # val
    /\ err = Nil

\* C2: the Store never holds an entry under the empty key.
C2_NoEmptyKey == "" \notin DOMAIN Store

\* C3: Set("", v) returns ErrEmptyKey and leaves the Store as it was.
C3_SetEmptyKey ==
    (op = "Set" /\ key = "") => (err = ErrEmptyKey /\ Store = before)

C3_Witness ==
    /\ op = "Set"
    /\ key = ""
    /\ val # ""
    /\ err = ErrEmptyKey
    /\ before # EmptyMap

\* C4: Get("") fails with ErrEmptyKey whatever the Store holds, on the
\* Service and on the handle.
C4_GetEmptyKey ==
    (op \in GetOps /\ key = "") => (err = ErrEmptyKey /\ ret = "")

C4_Witness ==
    /\ op = "Config.Get"
    /\ key = ""
    /\ err = ErrEmptyKey
    /\ "" \in DOMAIN Store

\* C5: Get(k) fails with ErrKeyNotFound, returning "", exactly when k is a
\* non-empty key the Store does not hold.
C5_GetAbsent ==
    op \in GetOps =>
        /\ err = ErrKeyNotFound <=> (key # "" /\ key \notin DOMAIN Store)
        /\ err = ErrKeyNotFound => ret = ""

C5_Witness ==
    /\ op = "Get"
    /\ err = ErrKeyNotFound
    /\ key # ""
    /\ Store # EmptyMap

\* C6 as claimed: GetOrDefault(k, d) returns d if and only if Has(k) is false.
C6_ReturnsDefaultIffAbsent ==
    op \in GetOrDefaultOps => (ret = val <=> ~ConfigHas(Store, key))

\* C6 as amended: GetOrDefault(k, d) returns d when Has(k) is false and the
\* stored value when Has(k) is true, and never fails, also for the empty key.
C6_GetOrDefault ==
    op \in GetOrDefaultOps =>
        /\ err = Nil
        /\ ~ConfigHas(Store, key) => ret = val
        /\ ConfigHas(Store, key) => ret = Store[key]

C6_Witness ==
    /\ op = "GetOrDefault"
    /\ ConfigHas(Store, key)
    /\ Store[key] = ""
    /\ val # ""
    /\ ret = ""

\* C7: after Set(k, "") with a non-empty key, Has(k) is true, Get(k) returns
\* "" and no error, and GetOrDefault(k, d) returns "" for every d.
C7_EmptyValuePresent ==
    (op = "Set" /\ key # "" /\ val = "") =>
        /\ ConfigHas(Store, key)
        /\ ConfigGet(Store, key) = [ret |-> "", err |-> Nil]
        /\ \A d \in Values : ConfigGetOrDefault(Store, key, d) = ""

C7_Witness ==
    /\ op = "Set"
    /\ key # ""
    /\ val = ""
    /\ err = Nil
    /\ key \in DOMAIN Store

\* C8: Delete(k) never fails and leaves every other entry alone, so that on
\* an absent key it changes nothing (a second Delete(k) is such a call), and
\* Has(k) is false after it, for present, absent and empty keys.
C8_DeleteIdempotent ==
    op = "Delete" =>
        /\ err = Nil
        /\ ~ConfigHas(Store, key)
        /\ Store = MapDelete(before, key)
        /\ key \notin DOMAIN before => Store = before

C8_Witness ==
    /\ op = "Delete"
    /\ key \notin DOMAIN before
    /\ before # EmptyMap
    /\ Store = before

\* C9: after Clear, GetAll returns an empty map and Get(k) fails with
\* ErrKeyNotFound for every non-empty key the Store held before.
C9_ClearEmpties ==
    op = "Clear" =>
        /\ GetAllResult = EmptyMap
        /\ \A k \in (DOMAIN before) \ {""} :
               ConfigGet(Store, k) = [ret |-> "", err |-> ErrKeyNotFound]

C9_Witness ==
    /\ op = "Clear"
    /\ (DOMAIN before) \ {""} # {}
    /\ Store = EmptyMap

\* C10: the map GetAll returns equals the Store at the call and is another
\* object: the caller's writes to it never change the Store, and later
\* writes to the Store never change it.
C10_GetAllCopy ==
    /\ [](op = "GetAll" => (got # NoRef /\ got # values /\ heap[got] = before
                            /\ Store = before))
    /\ [][op' \in CallerWrites => Store' = Store]_vars
    /\ [][(op' \in StoreWrites /\ got # NoRef) =>
              (got' = got /\ heap'[got'] = heap[got])]_vars

C10_Witness ==
    /\ got # NoRef
    /\ op \in StoreWrites
    /\ heap[got] # Store
    /\ heap[got] # EmptyMap
    /\ Store # EmptyMap

LoadWouldChange(st, e) ==
    \E lk \in DOMAIN Mapping :
        /\ Mapping[lk] \in DOMAIN e
        /\ (lk \notin DOMAIN st \/ st[lk] # e[Mapping[lk]])

\* C15: when the file cannot be read or parsed, Load fails with ErrLoadEnv
\* and the Store is exactly as it was before the call.
C15_LoadFails ==
    (op = "Load" /\ val \in {"missing.env", "bad.env"}) =>
        (err = ErrLoadEnv /\ Store = before)

C15_Witness ==
    /\ op = "Load"
    /\ val = "bad.env"
    /\ err = ErrLoadEnv
    /\ before # EmptyMap
    /\ LoadWouldChange(Store, env)

\* C16: Load("") succeeds and every mapping entry whose name the process
\* environment defines holds the environment's value.
C16_EmptyPathUsesEnv ==
    (op = "Load" /\ val = "") =>
        /\ err = Nil
        /\ \A lk \in DOMAIN Mapping :
               Mapping[lk] \in DOMAIN env =>
                   (ConfigHas(Store, lk) /\ Store[lk] = env[Mapping[lk]])

\* C17: after a successful Load of a file, every mapping entry whose name the
\* file defines holds the value the file gives, whatever the process
\* environment defined before.
C17_FileValueLoaded ==
    (op = "Load" /\ err = Nil) =>
        \A lk \in DOMAIN Mapping :
            Mapping[lk] \in DOMAIN FileEntries =>
                (ConfigHas(Store, lk) /\ Store[lk] = FileEntries[Mapping[lk]])

\* C18: what the caller does to its mapping value after New returned never
\* changes the logical keys and environment names the Service loads from.
MappingWrites == {"CallerMapPut", "CallerMapRemove"}
C18_MappingImmutable == [][op' \in MappingWrites => Mapping' = Mapping]_vars

\* An annotated string field whose name the environment does not define.
IsMissing(f) == f.tag # NoTag /\ f.str /\ f.tag \notin DOMAIN env
\* The names of the fields of the struct that are missing, in declaration order.
MissingNames ==
    LET m == SelectSeq(fields, IsMissing)
    IN  [i \in 1..Len(m) |-> m[i].tag]

\* C19: a one-shot Load whose source loaded fails exactly when a name is
\* missing, once, after every field was processed: the message is the
\* prefix and the missing names, comma-joined, in declaration order, and
\* every field whose name resolved holds its value.
C19_MissingAggregated ==
    (op = "ReflectLoad" /\ tkind = PtrStruct /\ err # ErrLoadEnv) =>
        /\ err = Nil <=> MissingNames = <<>>
        /\ err # Nil =>
               (err = ErrMissing /\ msg = MissingPrefix \o Join(MissingNames, ", "))
        /\ \A i \in 1..Len(fields) :
               (fields[i].tag \in DOMAIN env /\ fields[i].str) =>
                   target[i] = env[fields[i].tag]

C19_Witness ==
    /\ op = "ReflectLoad"
    /\ err = ErrMissing
    /\ Len(fields) = 2
    /\ fields[1] = [tag |-> "K3", str |-> TRUE]
    /\ fields[2] = [tag |-> "K2", str |-> TRUE]
    /\ msg = "missing required environment variables: K3, K2"

\* C20: a one-shot Load whose target is no pointer to a struct fails with
\* InvalidTarget and writes no field.
C20_InvalidTarget ==
    (op = "ReflectLoad" /\ tkind # PtrStruct) =>
        (err = ErrInvalidTarget /\ target = tbefore)

C20_Witness ==
    /\ op = "ReflectLoad"
    /\ tkind = "struct"
    /\ err = ErrInvalidTarget
    /\ \E i \in 1..Len(fields) :
           /\ fields[i].str
           /\ fields[i].tag \in DOMAIN env
           /\ target[i] # env[fields[i].tag]

\* A goroutine's step that ends its Service.Get.
GetEnds(t) == thr[t].op = "Get" /\ thr[t].pc = "reading" /\ thr'[t].pc # "reading"

\* C11: with goroutines calling Set and Get on one Service at once, every
\* Get returns, with ErrKeyNotFound or with a value some Set wrote, never a
\* torn one; and a Get that starts after a Set has returned, every Set so
\* far having written "v", returns "v" and no error.
C11_SetGetConcurrent ==
    [][\A t \in Threads :
           GetEnds(t) =>
               /\ thr'[t].pc = "idle"
               /\ \/ ret' = "" /\ err' = ErrKeyNotFound
                  \/ err' = Nil /\ ret' \in hist.written
               /\ (thr[t].acq.kind = "Set" /\ hist.written = {"v"}) =>
                      (err' = Nil /\ ret' = "v")]_vars

C11_Witness ==
    /\ op = "Get"
    /\ ret = "v"
    /\ err = Nil
    /\ hist.written = {"v"}
    /\ hist.last = [kind |-> "Set", val |-> "v"]
    /\ \E u \in Threads : thr[u].op = "Set" /\ thr[u].pc = "called"

\* C12: a goroutine reads the Store's map only while it holds the lock for
\* reading and writes it only while it holds it for writing; no read goes on
\* during a write and no two writes go on at once.
C12_LockedAccess ==
    /\ \A t \in Reading : t \in mu.readers
    /\ \A t \in Writing : mu.writer = t
    /\ Writing # {} => Reading = {}
    /\ Cardinality(Writing) <= 1

\* C13: the writes release the lock one after the other, and a Service.Get
\* returns what the last write that had released the lock when the Get took
\* it left: the value of a Set and no error, whatever was written before; and
\* ErrKeyNotFound only when that write is a Delete or a Clear, or none is.
C13_HappensBefore ==
    [][\A t \in Threads :
           /\ GetEnds(t) =>
                  /\ thr'[t].pc = "idle"
                  /\ IF thr[t].acq.kind = "Set"
                     THEN err' = Nil /\ ret' = thr[t].acq.val
                     ELSE err' = ErrKeyNotFound
           /\ (thr[t].pc = "writing" /\ thr'[t].pc # "writing") =>
                  /\ hist'.last.kind = thr[t].op
                  /\ Cardinality(Writing) = 1
                  /\ ConfigGet(Store', TheKey) =
                         IF thr[t].op = "Set"
                         THEN [ret |-> thr[t].val, err |-> Nil]
                         ELSE [ret |-> "", err |-> ErrKeyNotFound]]_vars

C13_Witness ==
    /\ op = "Get"
    /\ ret = "v"
    /\ err = Nil
    /\ hist.written = {"", "v"}
    /\ hist.last = [kind |-> "Set", val |-> "v"]
    /\ \E u \in Threads : thr[u].op = "Delete" /\ thr[u].pc = "called"

\* The fields of the struct that carry an env tag, in declaration order.
IsAnnotated(f) == f.tag # NoTag
Annotated == SelectSeq(fields, IsAnnotated)

\* C21: a one-shot Load leaves every field without an env tag as it was, also
\* when the environment defines a variable with the field's own name, and
\* the fields without a tag add nothing to the error: the Load fails, and
\* with the message, as it does for the struct of the tagged fields alone.
C21_UntaggedUntouched ==
    (op = "ReflectLoad") =>
        /\ \A i \in 1..Len(fields) :
               fields[i].tag = NoTag => target[i] = tbefore[i]
        /\ (tkind = PtrStruct /\ err # ErrLoadEnv) =>
               LET m == ReflectFill(Annotated, [i \in 1..Len(Annotated) |-> OldValue],
                                    env, 1, <<>>).missing
               IN  /\ err = Nil <=> m = <<>>
                   /\ err # Nil => msg = MissingPrefix \o Join(m, ", ")

C21_Witness ==
    /\ op = "ReflectLoad"
    /\ tkind = PtrStruct
    /\ err = ErrMissing
    /\ \E i \in 1..Len(fields) :
           /\ fields[i] = [tag |-> NoTag, str |-> TRUE]
           /\ FieldName(i) \in DOMAIN env
           /\ target[i] # env[FieldName(i)]

C23_LastToggleWins ==
    /\ [](logger.enabled <=> logger.last.kind = "EnableLogging")
    /\ [][\A t \in Threads :
              /\ (thr[t].op = "IsLoggingEnabled" /\ thr[t].pc = "reading"
                      /\ thr'[t].pc = "idle") =>
                     (ok' <=> thr[t].acq.kind = "EnableLogging")
              /\ (thr[t].op \in ToggleOps /\ thr[t].pc = "writing"
                      /\ thr'[t].pc = "idle") =>
                     /\ logger'.last.kind = thr[t].op
                     /\ logger'.enabled <=> thr[t].op = "EnableLogging"]_vars

C23_Witness ==
    /\ op = "IsLoggingEnabled"
    /\ ok
    /\ logger.last.kind = "EnableLogging"
    /\ \E u \in Threads : thr[u].op = "DisableLogging" /\ thr[u].pc = "called"

\* C24: with goroutines calling GetAll and Clear at once and no other write,
\* a GetAll returns either every entry the Store held before the Clears or
\* none: all of them when it took the lock before any Clear released it,
\* none afterwards.
C24_ClearAtomic ==
    [][\A t \in Threads :
           (thr[t].op = "GetAll" /\ thr[t].pc = "reading" /\ thr'[t].pc # "reading") =>
               /\ thr'[t].pc = "idle"
               /\ got' # NoRef
               /\ heap'[got'] = IF thr[t].acq.kind = "Clear" THEN EmptyMap ELSE before]_vars

C24_Witness ==
    /\ op = "GetAll"
    /\ got # NoRef
    /\ heap[got] = before
    /\ DOMAIN before = ClearKeys
    /\ \E u \in Threads : thr[u].op = "Clear" /\ thr[u].pc = "called"

Reads ==
    {"Get", "GetOrDefault", "Has", "GetAll", "Config",
     "Config.Get", "Config.GetOrDefault", "Config.Has", "Config.GetAll"}

\* C26: a read, whether it finds the key or not, leaves the Store's entries,
\* the mapping and the process environment as they were.
C26_ReadsNoEffect ==
    [][op' \in Reads => (Store' = Store /\ Mapping' = Mapping /\ env' = env)]_vars

C26_Witness ==
    /\ op = "GetOrDefault"
    /\ key # ""
    /\ key \notin DOMAIN Store
    /\ ret = "v"
    /\ Store # EmptyMap
    /\ Mapping # EmptyMap
    /\ env # EmptyMap

\* C27: Set(k, v) and Delete(k) leave every key other than k as it was:
\* present with the same value, or absent.
C27_OtherKeysKept ==
    (op \in {"Set", "Delete"}) =>
        \A j \in (DOMAIN Store \cup DOMAIN before) \ {key} :
            /\ j \in DOMAIN Store
            /\ j \in DOMAIN before
            /\ Store[j] = before[j]

C27_Witness ==
    /\ op = "Set"
    /\ err = Nil
    /\ key \in DOMAIN before
    /\ before[key] # val
    /\ \E j \in DOMAIN Store : j # key /\ Store[j] # val

\* C28: a Load leaves every Store key that is no logical key of the mapping
\* as it was, and a value it writes under a logical key is the value of the
\* environment name the mapping gives that key.
C28_LoadOnlyMapped ==
    (op = "Load") =>
        /\ \A j \in (DOMAIN Store \cup DOMAIN before) \ DOMAIN Mapping :
               /\ j \in DOMAIN Store
               /\ j \in DOMAIN before
               /\ Store[j] = before[j]
        /\ \A lk \in DOMAIN Mapping \cap DOMAIN Store :
               (lk \notin DOMAIN before \/ Store[lk] # before[lk]) =>
                   (Mapping[lk] \in DOMAIN env /\ Store[lk] = env[Mapping[lk]])

C28_Witness ==
    /\ op = "Load"
    /\ err = Nil
    /\ \E j \in DOMAIN Store : j \notin DOMAIN Mapping
    /\ \E lk \in DOMAIN Mapping \cap DOMAIN Store :
           /\ lk \notin DOMAIN before
           /\ \E n \in DOMAIN env :
                  /\ \A ck \in DOMAIN Mapping : Mapping[ck] # n
                  /\ env[n] # Store[lk]

\* C29: the last of Load and Set to write a key decides what Get returns for
\* it: after Set(k, v), v; after a successful Load, for a mapped key whose
\* name resolves, the environment's value, whatever a Set had stored; and
\* for a key outside the mapping, what it held before the Load.
C29_LastWriterWins ==
    /\ (op = "Set" /\ err = Nil) =>
           ConfigGet(Store, key) = [ret |-> val, err |-> Nil]
    /\ (op = "Load" /\ err = Nil) =>
           /\ \A k \in DOMAIN Mapping \ {""} :
                  Mapping[k] \in DOMAIN env =>
                      ConfigGet(Store, k) = [ret |-> env[Mapping[k]], err |-> Nil]
           /\ \A j \in DOMAIN before \ DOMAIN Mapping :
                  ConfigGet(Store, j) = ConfigGet(before, j)
    /\ (op = "Get") => [ret |-> ret, err |-> err] = ConfigGet(Store, key)

C29_Witness ==
    /\ op = "Load"
    /\ err = Nil
    /\ \E k \in DOMAIN Mapping \ {""} :
           /\ Mapping[k] \in DOMAIN env
           /\ k \in DOMAIN before
           /\ before[k] # env[Mapping[k]]
           /\ Store[k] = env[Mapping[k]]
    /\ \E j \in DOMAIN Store \ DOMAIN Mapping : j # ""

\* C30: every Service method releases s.mu on every return, Load's return of
\* ErrLoadEnv and Set's return of ErrEmptyKey (made before the lock is taken)
\* included: a goroutine outside a method holds the lock in no mode; while a
\* call is in progress some goroutine can take a step; and, the lock requests
\* being served fairly, every call that started returns.
Holds(t) == mu.writer = t \/ t \in mu.readers
Outside(t) == thr[t].pc \in {"idle", "called", "pending"}
C30_LocksReleased ==
    /\ [](\A t \in Threads : Outside(t) => ~Holds(t))
    /\ []((\E t \in Threads : thr[t].pc # "idle") =>
             (\E u \in Threads : ENABLED (Acquire(u) \/ Finish(u))))
    /\ \A t \in Threads : (thr[t].pc # "idle") ~> (thr[t].pc = "idle")

\* A Load that failed has returned ErrLoadEnv, and after it another goroutine
\* holds the lock for reading while a third call waits in Lock().
C30_Witness ==
    /\ op = "Load"
    /\ err = ErrLoadEnv
    /\ mu.writer = NoThread
    /\ mu.readers # {}
    /\ Pending # {}

\* C31: Load is atomic for the other methods of the Service. The goroutine in
\* Load holds s.mu for writing, no reader beside it, from godotenv.Load to the
\* last pass of the loop; and a Get, Has or GetAll that returns read a Store
\* holding none or all of the entries the Load writes, and returns what that
\* Store holds.
Loading == {t \in Threads : thr[t].op = "Load" /\ thr[t].pc \in {"writing", "loading"}}
ReadReturns(t) ==
    /\ thr[t].op \in RLockOps
    /\ thr[t].pc = "reading"
    /\ thr'[t].pc = "idle"
C31_LoadAtomic ==
    /\ [][\A t \in Loading' : mu'.writer = t /\ mu'.readers = {}]_vars
    /\ [][\A t \in Threads : ReadReturns(t) =>
             /\ DOMAIN Store \in {{}, LoadKeys}
             /\ thr[t].op = "GetAll" => heap'[got'] = Store
             /\ thr[t].op = "Get" =>
                    <<ret', err'>> = <<ConfigGet(Store, TheKey).ret,
                                       ConfigGet(Store, TheKey).err>>
             /\ thr[t].op = "Has" => ok' = ConfigHas(Store, TheKey)]_vars

\* A Load has written one of its two entries, and a reader waits in RLock().
C31_Witness ==
    \E u, t \in Threads :
        /\ thr[u].pc = "loading"
        /\ Cardinality(thr[u].todo) = 1
        /\ Cardinality(DOMAIN Store) = 1
        /\ thr[t].pc = "called"
        /\ thr[t].op = "GetAll"

\* C32: while logging is disabled, a call of New, Load, Set, Delete or Clear
\* writes no line to the log and leaves the logger as it was: the toggle is
\* all there is to see of it.
LoggedOps == {"New", "Load", "Set", "Delete", "Clear"}
ServiceCalled == thr' = thr /\ op' \in LoggedOps
====
